---- MODULE Spec2Model ----
(***************************************************************************)
(* baggie: in-place conversion of a directory into a BagIt 0.97 bag.       *)
(*                                                                         *)
(* The model covers src/src/bagit.rs (bag_directory and its helpers) and   *)
(* the part of src/src/app.rs that drives it (start_bagging, the worker    *)
(* thread, process_progress and the state changes of update).              *)
(*                                                                         *)
(* Text is modelled as a sequence of tokens.  A token is a TLA+ string     *)
(* standing for the bytes it spells; the separators the code looks at      *)
(* ("/", "\\", " ", "\n") are tokens of their own, so that join, replace,  *)
(* split and lines are computed as the code computes them.  The token set  *)
(* is prefix-free, which makes token-wise lexicographic order equal to     *)
(* byte-wise order of the spelled strings.                                 *)
(***************************************************************************)
EXTENDS Naturals, Sequences, FiniteSets, TLC

(***************************************************************************)
(* Bounds of the model.                                                    *)
(***************************************************************************)
\* top-level entries of an input directory
MaxTop == 2
\* filesystem failures injected in one behaviour
MaxFaults == 2
\* calls of start_bagging in one behaviour
MaxRuns == 2
\* top-level entries of a directory given to the observer
MaxAppTop == 1

(***************************************************************************)
(* Text helpers (Rust's str and Vec<String> operations).                   *)
(***************************************************************************)
\* All tokens that take part in a sort, in byte order of their spelling.
TokenOrder ==
    << "\n", " ", "/",
       "559aead08264d5795d3909718cdd05abd49572e84fe55590eef31a88a08fdffd",
       "A", "B", "\\", "a", "bag-info.txt", "bagit.txt", "c", "data",
       "df7e70e5021544f4834bbee64a9e3789febc4be81470df629cad6ddb03320a5c",
       "e3b0c44298fc1c149afbf4c8996fb92427ae41e4649b934ca495991b7852b855",
       "manifest-sha256.txt", "tagmanifest-sha256.txt" >>

TokRank(t) == CHOOSE i \in 1..Len(TokenOrder) : TokenOrder[i] = t

\* Ord for str: byte-wise lexicographic comparison, a <= b.
RECURSIVE StrLeq(_, _)
StrLeq(a, b) ==
    IF a = <<>> THEN TRUE
    ELSE IF b = <<>> THEN FALSE
    ELSE IF Head(a) = Head(b) THEN StrLeq(Tail(a), Tail(b))
    ELSE TokRank(Head(a)) < TokRank(Head(b))

\* [String]::join(sep)
RECURSIVE Join(_, _)
Join(strs, sep) ==
    IF strs = <<>> THEN <<>>
    ELSE IF Len(strs) = 1 THEN strs[1]
    ELSE strs[1] \o <<sep>> \o Join(Tail(strs), sep)

\* str::split over a set of separator tokens: the fields between separators.
RECURSIVE SplitAcc(_, _, _, _)
SplitAcc(s, seps, cur, acc) ==
    IF s = <<>> THEN Append(acc, cur)
    ELSE IF Head(s) \in seps THEN SplitAcc(Tail(s), seps, <<>>, Append(acc, cur))
    ELSE SplitAcc(Tail(s), seps, Append(cur, Head(s)), acc)

Split(s, seps) == SplitAcc(s, seps, <<>>, <<>>)

\* str::lines: split at "\n"; a final empty line is not a line.
Lines(s) ==
    LET parts == Split(s, {"\n"})
    IN  IF parts[Len(parts)] = <<>> THEN SubSeq(parts, 1, Len(parts) - 1) ELSE parts

\* str::split_whitespace: the non-empty fields between whitespace.
SplitWhitespace(s) == SelectSeq(Split(s, {" ", "\n"}), LAMBDA fld : fld # <<>>)

\* Iterator::last as an Option: <<>> is None, <<x>> is Some(x).
LastOpt(flds) == IF flds = <<>> THEN <<>> ELSE <<flds[Len(flds)]>>

\* Ord for Option<&str>: None < Some(_), Some by the strings.
OptLeq(a, b) ==
    IF a = <<>> THEN TRUE
    ELSE IF b = <<>> THEN FALSE
    ELSE StrLeq(a[1], b[1])

\* str::replace(from, to) for one-token patterns.
Replace(s, from, to) == [i \in 1..Len(s) |-> IF s[i] = from THEN to ELSE s[i]]

\* <[String]>::sort: ascending by the whole string.
RECURSIVE InsertSorted(_, _)
InsertSorted(sorted, x) ==
    IF sorted = <<>> THEN <<x>>
    ELSE IF StrLeq(sorted[1], x) THEN <<sorted[1]>> \o InsertSorted(Tail(sorted), x)
    ELSE <<x>> \o sorted

KeepOrder(strs) == strs
RECURSIVE SortStrings(_)
SortStrings(strs) ==
    IF strs = <<>> THEN <<>>
    ELSE InsertSorted(SortStrings(SubSeq(strs, 1, Len(strs) - 1)), strs[Len(strs)])

\* sort_by(|a, b| a.split_whitespace().last().cmp(&b.split_whitespace().last())),
\* a stable sort on the last whitespace-separated field.
TagKey(line) == LastOpt(SplitWhitespace(line))

RECURSIVE InsertByKey(_, _)
InsertByKey(sorted, x) ==
    IF sorted = <<>> THEN <<x>>
    ELSE IF OptLeq(TagKey(sorted[1]), TagKey(x))
         THEN <<sorted[1]>> \o InsertByKey(Tail(sorted), x)
    ELSE <<x>> \o sorted

RECURSIVE SortByFilename(_)
SortByFilename(strs) ==
    IF strs = <<>> THEN <<>>
    ELSE InsertByKey(SortByFilename(SubSeq(strs, 1, Len(strs) - 1)), strs[Len(strs)])

\* The bytes a token sequence spells, as one string, and their number.
RECURSIVE Spell(_)
Spell(s) == IF s = <<>> THEN "" ELSE Head(s) \o Spell(Tail(s))

RECURSIVE ByteLen(_)
ByteLen(s) == IF s = <<>> THEN 0 ELSE Len(Head(s)) + ByteLen(Tail(s))

(***************************************************************************)
(* SHA-256, lowercase hex.  The three payload contents of the model carry  *)
(* their real digests; any other content gets a digest that names it, so   *)
(* that distinct contents have distinct digests.                           *)
(***************************************************************************)
Sha256(bytes) ==
    CASE bytes = <<>> ->
           "e3b0c44298fc1c149afbf4c8996fb92427ae41e4649b934ca495991b7852b855"
      [] bytes = <<"A">> ->
           "559aead08264d5795d3909718cdd05abd49572e84fe55590eef31a88a08fdffd"
      [] bytes = <<"B">> ->
           "df7e70e5021544f4834bbee64a9e3789febc4be81470df629cad6ddb03320a5c"
      [] OTHER -> "sha256<" \o Spell(bytes) \o ">"

Sha256OfNothing(content) == Sha256(<<>>)
\* calculate_sha256_str: the digest of an in-memory string.
calculate_sha256_str(content) == Sha256(content)

(***************************************************************************)
(* The filesystem.  A path is a sequence of names relative to the target   *)
(* directory (<<>> is the target itself); a name is a token sequence.  fs  *)
(* maps every existing path to its node.  A "dangling" node is a symbolic  *)
(* link whose target does not exist, a "link" node one whose target is a   *)
(* regular file outside the target directory (bytes: the target's bytes).  *)
(***************************************************************************)
NameA == <<"a">>
NameC == <<"c">>
NameBackslash == <<"a", "\\", "c">>
DataName == <<"data">>
BagitName == <<"bagit.txt">>
ManifestName == <<"manifest-sha256.txt">>
BagInfoName == <<"bag-info.txt">>
TagManifestName == <<"tagmanifest-sha256.txt">>

TagFileNames == {BagitName, ManifestName, BagInfoName, TagManifestName}

Root == <<>>

FileNode(bytes) == [kind |-> "file", bytes |-> bytes]
DirNode == [kind |-> "dir", bytes |-> <<>>]
DanglingNode == [kind |-> "dangling", bytes |-> <<>>]
LinkNode(bytes) == [kind |-> "link", bytes |-> bytes]

IsPrefix(p, q) == Len(p) <= Len(q) /\ SubSeq(q, 1, Len(p)) = p
Parent(p) == SubSeq(p, 1, Len(p) - 1)
FileName(p) == p[Len(p)]

\* Path::exists and Path::is_dir follow symbolic links: a dangling link does
\* not exist.
Exists(f, p) == p \in DOMAIN f /\ f[p].kind # "dangling"
IsDir(f, p) == p \in DOMAIN f /\ f[p].kind = "dir"
\* DirEntry::file_type().is_file() of walkdir (links are not followed).
IsFile(f, p) == p \in DOMAIN f /\ f[p].kind = "file"

Children(f, p) == {q \in DOMAIN f : Len(q) = Len(p) + 1 /\ IsPrefix(p, q)}
Under(f, p) == {q \in DOMAIN f : IsPrefix(p, q)}

\* The regular files below p, as (path relative to p, bytes) pairs.
FilesBelow(f, p) ==
    {<<SubSeq(q, Len(p) + 1, Len(q)), f[q].bytes>> :
        q \in {r \in Under(f, p) : f[r].kind = "file"}}

\* fs::create_dir: fails when the path exists (a dangling link included) or
\* its parent is no directory.
create_dir(f, p) ==
    IF p \in DOMAIN f \/ ~IsDir(f, Parent(p))
    THEN [ok |-> FALSE, fs |-> f]
    ELSE [ok |-> TRUE, fs |-> (p :> DirNode) @@ f]

\* fs::rename within one filesystem: the entry and everything below it get
\* the new prefix; an existing destination is replaced.
rename(f, src, dst) ==
    IF src \notin DOMAIN f \/ ~IsDir(f, Parent(dst))
    THEN [ok |-> FALSE, fs |-> f]
    ELSE LET moved == Under(f, src)
             kept == (DOMAIN f \ moved) \ Under(f, dst)
             to(q) == dst \o SubSeq(q, Len(src) + 1, Len(q))
         IN  [ok |-> TRUE,
              fs |-> [q \in kept \cup {to(r) : r \in moved} |->
                        IF q \in kept THEN f[q]
                        ELSE f[CHOOSE r \in moved : to(r) = q]]]

\* fs::write: creates or truncates a regular file; fails on a directory or
\* under a missing parent.  Through a link the bytes land in its target,
\* outside the tree (a dangling link becomes a live one).
write(f, p, bytes) ==
    IF ~IsDir(f, Parent(p)) \/ IsDir(f, p)
    THEN [ok |-> FALSE, fs |-> f]
    ELSE IF p \in DOMAIN f /\ f[p].kind \in {"dangling", "link"}
    THEN [ok |-> TRUE, fs |-> [f EXCEPT ![p] = LinkNode(bytes)]]
    ELSE [ok |-> TRUE, fs |-> (p :> FileNode(bytes)) @@ f]

\* calculate_sha256: the digest of the file's bytes, streamed from disk.
calculate_sha256(f, p) == Sha256(f[p].bytes)
\* fs::metadata(p).len()
metadata_len(f, p) == ByteLen(f[p].bytes)

(***************************************************************************)
(* The input directories of the model: the target is missing, a regular    *)
(* file, or a directory with at most MaxTop top-level entries.             *)
(***************************************************************************)
OSes == {"unix", "windows"}

\* One top-level entry: its name, its node and, for a directory, its files.
Entry(name, node, kids) == [name |-> name, node |-> node, kids |-> kids]
Kid(name, bytes) == [name |-> name, bytes |-> bytes]

TopChoices(os) ==
    { Entry(NameA, FileNode(<<"A">>), {}),
      Entry(NameA, DirNode, {}),
      Entry(NameA, DirNode, {Kid(NameC, <<"A">>)}),
      Entry(NameC, FileNode(<<>>), {}),
      Entry(DataName, DirNode, {}),
      Entry(DataName, DanglingNode, {}),
      Entry(BagitName, FileNode(<<"A">>), {}),
      Entry(BagitName, DanglingNode, {}),
      Entry(ManifestName, FileNode(<<"A">>), {}) }
    \cup (IF os = "unix"
          THEN {Entry(NameBackslash, FileNode(<<"B">>), {})}
          ELSE {})

TreeOf(entries) ==
    LET tops == {<<e.name>> : e \in entries}
        kids == {<<e.name, k.name>> : e \in entries, k \in UNION {x.kids : x \in entries}}
        kidsOk == {q \in kids : \E e \in entries : e.name = q[1] /\ \E k \in e.kids : k.name = q[2]}
    IN  [q \in {Root} \cup tops \cup kidsOk |->
            IF q = Root THEN DirNode
            ELSE IF Len(q) = 1 THEN (CHOOSE e \in entries : e.name = q[1]).node
            ELSE FileNode((CHOOSE k \in (CHOOSE e \in entries : e.name = q[1]).kids :
                              k.name = q[2]).bytes)]

TreesUpTo(os, n) ==
    { TreeOf(es) : es \in {s \in SUBSET TopChoices(os) :
                             /\ Cardinality(s) <= n
                             /\ \A e1, e2 \in s : e1.name = e2.name => e1 = e2} }
    \cup { (Root :> FileNode(<<"A">>)), <<>> }

InputTrees(os) == TreesUpTo(os, MaxTop)
AppTrees(os) == TreesUpTo(os, MaxAppTop)

(***************************************************************************)
(* bag_directory.  A call is a record w: its position pc, its arguments    *)
(* and locals, its result, and a few history fields (fs0, emitted, ops,    *)
(* failures) that the code does not have and the properties read.          *)
(*                                                                         *)
(* BagStep(w, f, rx, env) is the step the call takes at w.pc on filesystem *)
(* f, with rx telling whether the receiver of its sink is alive and env    *)
(* the outcome of what the environment decides in that step: which         *)
(* filesystem operation fails, the order of a directory listing, the date. *)
(***************************************************************************)
Started(total_files) == [type |-> "Started", n |-> total_files, text |-> <<>>]
Moving(current, filename) == [type |-> "Moving", n |-> current, text |-> filename]
Checksumming(current, filename) ==
    [type |-> "Checksumming", n |-> current, text |-> filename]
Done == [type |-> "Done", n |-> 0, text |-> <<>>]
Error(message) == [type |-> "Error", n |-> 0, text |-> message]

\* impl Display for BagError
Display(err) ==
    CASE err = "NotADirectory" -> <<"Path is not a directory">>
      [] err = "AlreadyABag" -> <<"Directory appears to already be a bag">>
      [] OTHER -> <<"IO error: ", "cause">>

NewCall(tx, f) ==
    [ pc |-> "validate", tx |-> tx, result |-> "none",
      total_files |-> 0, items_to_move |-> <<>>, i |-> 0, data_files |-> <<>>,
      manifest_entries |-> <<>>, total_bytes |-> 0, file_count |-> 0,
      manifest_content |-> <<>>, bag_info_content |-> <<>>,
      fs0 |-> f, emitted |-> <<>>, ops |-> <<>>, failures |-> <<>> ]

NoEnv == [fail |-> FALSE, bad |-> {}, skip |-> {}, order |-> <<>>, date |-> ""]

Return(w, result) == [w EXCEPT !.pc = "returned", !.result = result]
Goto(w, pc) == [w EXCEPT !.pc = pc]
Op(w, op) == [w EXCEPT !.ops = Append(@, op)]
\* A filesystem operation failed in this phase (history only).
Failed(w, what) == [w EXCEPT !.failures = Append(@, what)]
\* `?` on an io::Result: From<io::Error> makes it BagError::IoError.
Propagate(w, what) == Return(Failed(w, what), "IoError")

Out(w, f, ev) == [w |-> w, fs |-> f, ev |-> ev]

\* `let _ = tx.send(..)`: the Result of the send is discarded.
OnSendPropagate(w, delivered) == IF delivered THEN w ELSE Return(w, "IoError")
OnSend(w, delivered) == w

\* `if let Some(ref tx) = progress_tx { let _ = tx.send(ev); }`: with a sink
\* the event is sent; it is delivered when the receiver is alive.
Emit(w, rx, ev) ==
    IF w.tx
    THEN [w |-> OnSend([w EXCEPT !.emitted = Append(@, ev)], rx),
          ev |-> IF rx THEN <<ev>> ELSE <<>>]
    ELSE [w |-> w, ev |-> <<>>]

\* WalkDir without follow_links, through filter_map(|e| e.ok()): every entry
\* at or below p except those below a directory that cannot be read.
WalkEntries(f, p, bad) ==
    {q \in Under(f, p) :
        \A a \in Under(f, p) : (IsPrefix(a, q) /\ a # q) => a \notin bad}

Dirs(f, p) == {q \in Under(f, p) : f[q].kind = "dir"}

\* The orders in which a depth-first walk can yield the regular files of
\* `files` below directory p: the entries of each directory in any order,
\* each subdirectory's files together.
Perms(S) ==
    {sq \in [1..Cardinality(S) -> S] : \A x \in S : \E k \in DOMAIN sq : sq[k] = x}

RECURSIVE ConcatAll(_)
ConcatAll(sqs) == IF sqs = <<>> THEN <<>> ELSE Head(sqs) \o ConcatAll(Tail(sqs))

RECURSIVE WalkOrders(_, _, _)
WalkOrders(f, p, files) ==
    IF f[p].kind # "dir" THEN (IF p \in files THEN {<<p>>} ELSE {<<>>})
    ELSE LET kids == {q \in Children(f, p) : \E x \in files : IsPrefix(q, x)}
             below == [q \in kids |-> WalkOrders(f, q, files)]
             picks == {g \in [kids -> UNION {below[q] : q \in kids}] :
                          \A q \in kids : g[q] \in below[q]}
         IN  UNION { {ConcatAll([k \in 1..Len(ord) |-> g[ord[k]]]) : g \in picks}
                     : ord \in Perms(kids) }

ValidateNoDirCheck(w0, f) ==
    LET w == [w0 EXCEPT !.fs0 = f]
    IN  IF Exists(f, <<BagitName>>) \/ Exists(f, <<DataName>>)
        THEN Out(Return(w, "AlreadyABag"), f, <<>>)
        ELSE Out(Goto(w, "enumerate"), f, <<>>)

ValidateBagitOnly(w0, f) ==
    LET w == [w0 EXCEPT !.fs0 = f]
    IN  IF ~IsDir(f, Root) THEN Out(Return(w, "NotADirectory"), f, <<>>)
        ELSE IF Exists(f, <<BagitName>>)
        THEN Out(Return(w, "AlreadyABag"), f, <<>>)
        ELSE Out(Goto(w, "enumerate"), f, <<>>)

\* Lines 66-73: the two validations.
Validate(w0, f) ==
    LET w == [w0 EXCEPT !.fs0 = f]
    IN  IF ~IsDir(f, Root) THEN Out(Return(w, "NotADirectory"), f, <<>>)
        ELSE IF Exists(f, <<BagitName>>) \/ Exists(f, <<DataName>>)
        THEN Out(Return(w, "AlreadyABag"), f, <<>>)
        ELSE Out(Goto(w, "enumerate"), f, <<>>)

\* Lines 75-86: count the regular files, send Started.
Enumerate(w, f, rx, env) ==
    LET entries == WalkEntries(f, Root, env.bad) \ {Root}
        total_files == Cardinality({e \in entries : IsFile(f, e)})
        w1 == Op(IF env.bad = {} THEN w ELSE Failed(w, "walk"), <<"walk", Root>>)
        s == Emit([w1 EXCEPT !.total_files = total_files, !.pc = "create_data"],
                  rx, Started(total_files))
    IN  Out(s.w, f, s.ev)

\* Lines 88-90.
CreateData(w, f, env) ==
    LET r == create_dir(f, <<DataName>>)
        w1 == Op(w, <<"create_dir", <<DataName>>>>)
    IN  IF env.fail \/ ~r.ok THEN Out(Propagate(w1, "create_dir"), f, <<>>)
        ELSE Out(Goto(w1, "read_dir"), r.fs, <<>>)

\* Lines 92-96: the top-level entries other than data, in listing order.
\* fs::read_dir(path)? propagates a failure to open the listing (env.fail);
\* an entry the listing fails on is dropped by filter_map(|e| e.ok()), and
\* the listing ends there (env.skip: the entries not listed).
ReadDir(w, f, env) ==
    LET w1 == Op(w, <<"read_dir", Root>>)
        w2 == IF env.skip = {} THEN w1 ELSE Failed(w1, "read_dir entry")
    IN  IF env.fail \/ ~IsDir(f, Root) THEN Out(Propagate(w1, "read_dir"), f, <<>>)
        ELSE Out([w2 EXCEPT !.items_to_move = env.order, !.i = 0,
                            !.pc = IF env.order = <<>> THEN "walk_data" ELSE "move"],
                 f, <<>>)

\* The listings read_dir can produce: every order of the listed entries.
ReadDirOrders(f, skip) ==
    Perms({FileName(q) : q \in {c \in Children(f, Root) \ skip : FileName(c) # DataName}})

\* Lines 105 and 130: `current: i + 1`, i the index of enumerate().
CurrentZeroBased(i) == i
Current(i) == i + 1

\* Lines 99-111, one iteration: send Moving, rename the entry into data/.
MoveOne(w, f, rx, env) ==
    LET filename == w.items_to_move[w.i + 1]
        s == Emit(w, rx, Moving(Current(w.i), filename))
        w1 == Op(s.w, <<"rename", <<filename>>, <<DataName, filename>>>>)
        r == rename(f, <<filename>>, <<DataName, filename>>)
    IN  IF s.w.pc = "returned" THEN Out(s.w, f, s.ev)
        ELSE IF env.fail \/ ~r.ok THEN Out(Propagate(w1, "rename"), f, s.ev)
        ELSE Out([w1 EXCEPT !.i = w.i + 1,
                            !.pc = IF w.i + 1 = Len(w.items_to_move)
                                   THEN "walk_data" ELSE "move"],
                 r.fs, s.ev)

\* Lines 113-122: the regular files the walk of data/ yields, in walk order.
WalkData(w, f, env) ==
    LET w1 == Op(IF env.bad = {} THEN w ELSE Failed(w, "walk"), <<"walk", <<DataName>>>>)
    IN  Out([w1 EXCEPT !.data_files = env.order, !.i = 0,
                       !.manifest_entries = <<>>, !.total_bytes = 0, !.file_count = 0,
                       !.pc = IF env.order = <<>> THEN "write_bagit" ELSE "hash"],
            f, <<>>)

DataWalkOrders(f, bad) ==
    IF <<DataName>> \notin DOMAIN f THEN {<<>>}
    ELSE WalkOrders(f, <<DataName>>,
                    {q \in WalkEntries(f, <<DataName>>, bad) : IsFile(f, q)})

MAIN_SEPARATOR(os) == IF os = "windows" THEN "\\" ELSE "/"
\* Path::to_string_lossy of a relative path: its names joined by the
\* platform's separator.
to_string_lossy(p, os) == Join(p, MAIN_SEPARATOR(os))
\* Line 141.
ManifestPath(p, os) == Replace(to_string_lossy(p, os), "\\", "/")
\* Line 142: format!("{}  {}", checksum, manifest_path)
ManifestLine(checksum, manifest_path) == <<checksum, " ", " ">> \o manifest_path

\* Lines 124-143, one iteration: send Checksumming, hash the file, add its
\* length, record its manifest line.  env.fail is a failure of File::open,
\* of a read or of fs::metadata: each returns IoError at once.
HashOne(w, f, rx, os, env) ==
    LET file_path == w.data_files[w.i + 1]
        s == Emit(w, rx, Checksumming(Current(w.i), to_string_lossy(file_path, os)))
        w1 == Op(s.w, <<"read", file_path>>)
    IN  IF s.w.pc = "returned" THEN Out(s.w, f, s.ev)
        ELSE IF env.fail \/ ~IsFile(f, file_path)
        THEN Out(Propagate(w1, "read"), f, s.ev)
        ELSE Out([w1 EXCEPT
                    !.total_bytes = @ + metadata_len(f, file_path),
                    !.file_count = @ + 1,
                    !.manifest_entries =
                        Append(@, ManifestLine(calculate_sha256(f, file_path),
                                               ManifestPath(file_path, os))),
                    !.i = w.i + 1,
                    !.pc = IF w.i + 1 = Len(w.data_files) THEN "write_bagit" ELSE "hash"],
                 f, s.ev)

\* Line 146.
bagit_content ==
    <<"BagIt-Version: 0.97", "\n", "Tag-File-Character-Encoding: UTF-8", "\n">>

\* One fs::write(..)? of a tag file, then on to the next phase.
WriteTag(w, f, env, name, content, next) ==
    LET r == write(f, <<name>>, content)
        w1 == Op(w, <<"write", <<name>>>>)
    IN  IF env.fail \/ ~r.ok THEN Out(Propagate(w1, "write"), f, <<>>)
        ELSE Out(Goto(w1, next), r.fs, <<>>)

\* Lines 145-147.
WriteBagit(w, f, env) == WriteTag(w, f, env, BagitName, bagit_content, "write_manifest")

\* Lines 149-152.
ManifestContent(manifest_entries) == Join(SortStrings(manifest_entries), "\n") \o <<"\n">>

WriteManifest(w, f, env) ==
    LET manifest_content == ManifestContent(w.manifest_entries)
    IN  WriteTag([w EXCEPT !.manifest_content = manifest_content], f, env,
                 ManifestName, manifest_content, "write_bag_info")

\* Lines 154-161.
BagInfoContent(date, total_bytes, file_count) ==
    << "Bag-Software-Agent: baggie 0.1.1", "\n",
       "Bagging-Date: ", date, "\n",
       "Payload-Oxum: ", ToString(total_bytes) \o "." \o ToString(file_count), "\n" >>

WriteBagInfo(w, f, env) ==
    LET bag_info_content == BagInfoContent(env.date, w.total_bytes, w.file_count)
    IN  WriteTag([w EXCEPT !.bag_info_content = bag_info_content], f, env,
                 BagInfoName, bag_info_content, "write_tagmanifest")

\* Lines 163-178.
TagManifestContent(bag_info, bagit, manifest) ==
    LET tagmanifest_entries ==
            << <<calculate_sha256_str(bag_info), " ", " ", "bag-info.txt">>,
               <<calculate_sha256_str(bagit), " ", " ", "bagit.txt">>,
               <<calculate_sha256_str(manifest), " ", " ", "manifest-sha256.txt">> >>
    IN  Join(SortByFilename(tagmanifest_entries), "\n") \o <<"\n">>

WriteTagManifest(w, f, env) ==
    WriteTag(w, f, env, TagManifestName,
             TagManifestContent(w.bag_info_content, bagit_content, w.manifest_content),
             "send_done")

\* Lines 180-186.
SendDone(w, f, rx) ==
    LET s == Emit(w, rx, Done)
    IN  Out(IF s.w.pc = "returned" THEN s.w ELSE Return(s.w, "Ok"), f, s.ev)

BagStep(w, f, rx, os, env) ==
    CASE w.pc = "validate" -> Validate(w, f)
      [] w.pc = "enumerate" -> Enumerate(w, f, rx, env)
      [] w.pc = "create_data" -> CreateData(w, f, env)
      [] w.pc = "read_dir" -> ReadDir(w, f, env)
      [] w.pc = "move" -> MoveOne(w, f, rx, env)
      [] w.pc = "walk_data" -> WalkData(w, f, env)
      [] w.pc = "hash" -> HashOne(w, f, rx, os, env)
      [] w.pc = "write_bagit" -> WriteBagit(w, f, env)
      [] w.pc = "write_manifest" -> WriteManifest(w, f, env)
      [] w.pc = "write_bag_info" -> WriteBagInfo(w, f, env)
      [] w.pc = "write_tagmanifest" -> WriteTagManifest(w, f, env)
      [] w.pc = "send_done" -> SendDone(w, f, rx)

\* Bagging-Date: the local date when bag-info.txt is built.
Dates == {"2024-05-01", "2024-05-02"}

\* What the environment can decide in the step at w.pc, with `budget`
\* failures left to inject.
Fails(budget) == IF budget > 0 THEN {FALSE, TRUE} ELSE {FALSE}
BadSets(f, p, budget) ==
    {{}} \cup (IF budget > 0 THEN {{d} : d \in Dirs(f, p)} ELSE {})

Envs(w, f, budget) ==
    CASE w.pc = "enumerate" ->
           {[NoEnv EXCEPT !.bad = b] : b \in BadSets(f, Root, budget)}
      [] w.pc = "read_dir" ->
           {[NoEnv EXCEPT !.fail = TRUE] : x \in Fails(budget) \ {FALSE}} \cup
           UNION { {[NoEnv EXCEPT !.skip = sk, !.order = o] : o \in ReadDirOrders(f, sk)}
                   : sk \in {{}} \cup (IF budget > 0
                                       THEN (SUBSET {c \in Children(f, Root) :
                                                         FileName(c) # DataName}) \ {{}}
                                       ELSE {}) }
      [] w.pc = "walk_data" ->
           UNION { {[NoEnv EXCEPT !.bad = b, !.order = o] : o \in DataWalkOrders(f, b)}
                   : b \in BadSets(f, <<DataName>>, budget) }
      [] w.pc = "write_bag_info" ->
           {[NoEnv EXCEPT !.fail = x, !.date = d] : x \in Fails(budget), d \in Dates}
      [] w.pc \in {"create_data", "move", "hash", "write_bagit", "write_manifest",
                   "write_tagmanifest"} ->
           {[NoEnv EXCEPT !.fail = x] : x \in Fails(budget)}
      [] OTHER -> {NoEnv}

\* The failures a step injects.
Cost(env) == IF env.fail \/ env.bad # {} \/ env.skip # {} THEN 1 ELSE 0

(***************************************************************************)
(* The program: the filesystem, the calls of bag_directory made so far     *)
(* (one worker thread each), one channel per call, and the observer        *)
(* (BagItApp).                                                             *)
(***************************************************************************)
VARIABLES
    os,        \* the platform the program was built for
    fs,        \* the filesystem below the target path
    calls,     \* calls[r]: the r-th call of bag_directory and its thread
    chans,     \* chans[r]: the channel of the r-th call: queue and receiver
    app,       \* BagItApp: state, progress_rx, and its place in update
    faults,    \* filesystem failures injected so far
    refCall,   \* a second call of bag_directory, without a sink, ...
    refFs      \* ... on a filesystem of its own (specification SpecBag)

vars == <<os, fs, calls, chans, app, faults, refCall, refFs>>

\* enum AppState
AppIdle ==
    [tag |-> "Idle", total_files |-> 0, current |-> 0, current_file |-> <<>>,
     stage |-> <<>>, file_count |-> 0, message |-> <<>>]
AppProcessing(total_files, current, current_file, stage) ==
    [tag |-> "Processing", total_files |-> total_files, current |-> current,
     current_file |-> current_file, stage |-> stage, file_count |-> 0, message |-> <<>>]
AppDone(file_count) ==
    [tag |-> "Done", total_files |-> 0, current |-> 0, current_file |-> <<>>,
     stage |-> <<>>, file_count |-> file_count, message |-> <<>>]
AppError(message) ==
    [tag |-> "Error", total_files |-> 0, current |-> 0, current_file |-> <<>>,
     stage |-> <<>>, file_count |-> 0, message |-> message]

\* std::sync::mpsc::channel(): the queue and whether the Receiver is alive;
\* sent and recvd are history: everything queued, everything received.
NewChannel == [queue |-> <<>>, rx |-> TRUE, sent |-> <<>>, recvd |-> <<>>]

\* impl Default for BagItApp; clear_rx is the local of process_progress.
NewApp == [state |-> AppIdle, progress_rx |-> 0, clear_rx |-> FALSE]

Init ==
    /\ os \in OSes
    /\ fs \in AppTrees(os)
    /\ calls = <<>>
    /\ chans = <<>>
    /\ app = NewApp
    /\ faults = 0
    /\ refCall = NewCall(FALSE, fs)
    /\ refFs = fs

(***************************************************************************)
(* The worker thread of app.rs lines 55-61: bag_directory step by step,    *)
(* then the Error event when it returned an error.                         *)
(***************************************************************************)
\* Sender::send: queued when the receiver is alive, dropped otherwise.
Send(ch, ev) ==
    IF ch.rx THEN [ch EXCEPT !.queue = Append(@, ev), !.sent = Append(@, ev)] ELSE ch

\* The events of one step of bag_directory (at most one), sent in order.
SendAll(ch, evs) == IF evs = <<>> THEN ch ELSE Send(ch, evs[1])

Phase(r, pc) ==
    /\ calls[r].pc = pc
    /\ \E env \in Envs(calls[r], fs, MaxFaults - faults) :
         LET o == BagStep(calls[r], fs, chans[r].rx, os, env)
             ref == BagStep(refCall, refFs, FALSE, os, env)
         IN  /\ calls' = [calls EXCEPT ![r] = o.w]
             /\ fs' = o.fs
             /\ chans' = [chans EXCEPT ![r] = SendAll(@, o.ev)]
             /\ faults' = faults + Cost(env)
             \* the reference call takes the same step under the same outcome
             /\ IF r = 1 /\ refCall.pc = pc
                THEN refCall' = ref.w /\ refFs' = ref.fs
                ELSE UNCHANGED <<refCall, refFs>>
    /\ UNCHANGED <<os, app>>

ValidateStep(r) == Phase(r, "validate")
EnumerateStep(r) == Phase(r, "enumerate")
CreateDataStep(r) == Phase(r, "create_data")
ReadDirStep(r) == Phase(r, "read_dir")
MoveStep(r) == Phase(r, "move")
WalkDataStep(r) == Phase(r, "walk_data")
HashStep(r) == Phase(r, "hash")
WriteBagitStep(r) == Phase(r, "write_bagit")
WriteManifestStep(r) == Phase(r, "write_manifest")
WriteBagInfoStep(r) == Phase(r, "write_bag_info")
WriteTagManifestStep(r) == Phase(r, "write_tagmanifest")
SendDoneStep(r) == Phase(r, "send_done")

\* Lines 56-60: if let Err(e) = bag_directory(..) { let _ = tx.send(Error) }
ReportNothing(result) == <<>>
ReportAlways(result) == <<Error(Display(result))>>
Report(result) == IF result # "Ok" THEN <<Error(Display(result))>> ELSE <<>>

WorkerReport(r) ==
    /\ calls[r].pc = "returned"
    /\ calls' = [calls EXCEPT ![r].pc = "exited"]
    /\ chans' = [chans EXCEPT ![r] = SendAll(@, Report(calls[r].result))]
    /\ UNCHANGED <<os, fs, app, faults, refCall, refFs>>

(***************************************************************************)
(* The observer: BagItApp::update is process_progress (a try_recv loop),   *)
(* then the handling of this frame's input.                                *)
(***************************************************************************)
\* process_progress, lines 69-116: the match on one received event.
OnProgress(state, ev) ==
    CASE ev.type = "Started" ->
           AppProcessing(ev.n, 0, <<>>, <<"Preparing...">>)
      [] ev.type = "Moving" ->
           IF state.tag = "Processing"
           THEN [state EXCEPT !.current_file = ev.text,
                              !.stage = <<"Moving files", ev.n, state.total_files>>]
           ELSE state
      [] ev.type = "Checksumming" ->
           IF state.tag = "Processing"
           THEN [state EXCEPT !.current = ev.n, !.current_file = ev.text,
                              !.stage = <<"Checksumming", ev.n, state.total_files>>]
           ELSE state
      [] ev.type = "Done" ->
           AppDone(IF state.tag = "Processing" THEN state.total_files ELSE 0)
      [] ev.type = "Error" -> AppError(ev.text)

\* Receiver::try_recv on a queue that is not empty: the oldest event.
try_recv_newest(ch) ==
    [ev |-> ch.queue[Len(ch.queue)],
     ch |-> [ch EXCEPT !.queue = SubSeq(@, 1, Len(@) - 1),
                       !.recvd = Append(@, ch.queue[Len(ch.queue)])]]
try_recv(ch) ==
    [ev |-> Head(ch.queue),
     ch |-> [ch EXCEPT !.queue = Tail(@), !.recvd = Append(@, Head(ch.queue))]]

\* One turn of `while let Ok(progress) = rx.try_recv()`, lines 67-117.
TryRecv ==
    /\ app.progress_rx # 0
    /\ chans[app.progress_rx].queue # <<>>
    /\ LET got == try_recv(chans[app.progress_rx])
       IN  /\ app' = [app EXCEPT !.state = OnProgress(app.state, got.ev),
                                 !.clear_rx = @ \/ got.ev.type \in {"Done", "Error"}]
           /\ chans' = [chans EXCEPT ![app.progress_rx] = got.ch]
    /\ UNCHANGED <<os, fs, calls, faults, refCall, refFs>>

\* The loop of process_progress ends: there is no receiver, or try_recv
\* returns Err (the queue is empty).
LoopEnds == app.progress_rx # 0 => chans[app.progress_rx].queue = <<>>

\* Lines 120-122: `if clear_rx { self.progress_rx = None; }`, which drops
\* the Receiver.  The rest of update handles the input of the frame.
AfterLoop(a) == [a EXCEPT !.clear_rx = FALSE, !.progress_rx = IF a.clear_rx THEN 0 ELSE @]
DropRx(chs, rx) == IF rx # 0 THEN [chs EXCEPT ![rx].rx = FALSE] ELSE chs
ChansAfterLoop == IF app.clear_rx THEN DropRx(chans, app.progress_rx) ELSE chans

\* start_bagging, lines 45-62, in a frame whose loop has ended: a new
\* channel (assigning progress_rx drops the old Receiver, if any), state
\* Processing, a new worker thread.
start_bagging ==
    /\ Len(calls) < MaxRuns
    /\ app' = [AfterLoop(app) EXCEPT
                 !.progress_rx = Len(chans) + 1,
                 !.state = AppProcessing(0, 0, <<>>, <<"Starting...">>)]
    /\ chans' = Append(DropRx(ChansAfterLoop, AfterLoop(app).progress_rx), NewChannel)
    /\ calls' = Append(calls, NewCall(TRUE, fs))
    /\ UNCHANGED <<os, fs, faults, refCall, refFs>>

\* Line 147: matches!(self.state, Idle | Done { .. } | Error { .. })
CanStartAlways(tag) == TRUE
CanStart(tag) == tag \in {"Idle", "Done", "Error"}

\* Lines 146-150: a folder dropped on the window.
DropFolder ==
    /\ LoopEnds
    /\ IsDir(fs, Root)
    /\ CanStart(app.state.tag)
    /\ start_bagging

\* A frame without input, or with a drop that lines 146-150 ignore (not a
\* directory, or the state is Processing).
NoInput ==
    /\ LoopEnds
    /\ app' = AfterLoop(app)
    /\ chans' = ChansAfterLoop
    /\ UNCHANGED <<os, fs, calls, faults, refCall, refFs>>

\* Lines 175-179: Browse... in the Idle screen.
Browse ==
    /\ LoopEnds
    /\ app.state.tag = "Idle"
    /\ start_bagging

\* Lines 231-233 and 246-248: Bag Another Folder, Try Again.
ClickReset ==
    /\ LoopEnds
    /\ app.state.tag \in {"Done", "Error"}
    /\ app' = [AfterLoop(app) EXCEPT !.state = AppIdle]
    /\ chans' = ChansAfterLoop
    /\ UNCHANGED <<os, fs, calls, faults, refCall, refFs>>

Next ==
    \/ \E r \in DOMAIN calls : ValidateStep(r)
    \/ \E r \in DOMAIN calls : EnumerateStep(r)
    \/ \E r \in DOMAIN calls : CreateDataStep(r)
    \/ \E r \in DOMAIN calls : ReadDirStep(r)
    \/ \E r \in DOMAIN calls : MoveStep(r)
    \/ \E r \in DOMAIN calls : WalkDataStep(r)
    \/ \E r \in DOMAIN calls : HashStep(r)
    \/ \E r \in DOMAIN calls : WriteBagitStep(r)
    \/ \E r \in DOMAIN calls : WriteManifestStep(r)
    \/ \E r \in DOMAIN calls : WriteBagInfoStep(r)
    \/ \E r \in DOMAIN calls : WriteTagManifestStep(r)
    \/ \E r \in DOMAIN calls : SendDoneStep(r)
    \/ \E r \in DOMAIN calls : WorkerReport(r)
    \/ TryRecv
    \/ DropFolder
    \/ Browse
    \/ NoInput
    \/ ClickReset

Spec == Init /\ [][Next]_vars

\* The r-th worker thread: bag_directory step by step, then its report.
Worker(r) ==
    /\ r \in DOMAIN calls
    /\ \/ ValidateStep(r) \/ EnumerateStep(r) \/ CreateDataStep(r)
       \/ ReadDirStep(r) \/ MoveStep(r) \/ WalkDataStep(r) \/ HashStep(r)
       \/ WriteBagitStep(r) \/ WriteManifestStep(r) \/ WriteBagInfoStep(r)
       \/ WriteTagManifestStep(r) \/ SendDoneStep(r)
       \/ WorkerReport(r)

\* The worker has a step to take until its closure has ended.
WorkerEnabled(r) == r \in DOMAIN calls /\ calls[r].pc # "exited"

\* A spawned thread keeps running until its closure ends: weak fairness of
\* Worker(r), with ENABLED <<Worker(r)>>_vars written out as WorkerEnabled(r).
\* And update runs again while progress_rx is set (lines 132-134 request the
\* repaint): each update empties the queue and ends its frame.
Fairness ==
    /\ \A r \in 1..MaxRuns : []<>(~WorkerEnabled(r)) \/ []<><<Worker(r)>>_vars
    /\ WF_vars(TryRecv)
    /\ WF_vars(NoInput)

SpecLive == Init /\ [][Next]_vars /\ Fairness

(***************************************************************************)
(* bag_directory called directly (as the tests of bagit.rs do), with or    *)
(* without a sink; with a sink, its receiver may be dropped at any point.  *)
(* The reference call runs beside it: without a sink, on a copy of the     *)
(* same input, under the same outcomes of the environment.                 *)
(***************************************************************************)
InitBag ==
    /\ os \in OSes
    /\ fs \in InputTrees(os)
    /\ \E tx \in BOOLEAN : calls = <<NewCall(tx, fs)>>
    /\ chans = <<NewChannel>>
    /\ app = NewApp
    /\ faults = 0
    /\ refCall = NewCall(FALSE, fs)
    /\ refFs = fs

\* The caller drops the Receiver of the sink.
DropReceiver ==
    /\ calls[1].tx
    /\ chans[1].rx
    /\ calls[1].pc # "returned"
    /\ chans' = [chans EXCEPT ![1].rx = FALSE]
    /\ UNCHANGED <<os, fs, calls, app, faults, refCall, refFs>>

NextBag ==
    \/ ValidateStep(1)
    \/ EnumerateStep(1)
    \/ CreateDataStep(1)
    \/ ReadDirStep(1)
    \/ MoveStep(1)
    \/ WalkDataStep(1)
    \/ HashStep(1)
    \/ WriteBagitStep(1)
    \/ WriteManifestStep(1)
    \/ WriteBagInfoStep(1)
    \/ WriteTagManifestStep(1)
    \/ SendDoneStep(1)
    \/ DropReceiver

SpecBag == InitBag /\ [][NextBag]_vars

(***************************************************************************)
(* Properties.                                                             *)
(***************************************************************************)
Returned(w) == w.pc \in {"returned", "exited"}
ReturnedOk(w) == Returned(w) /\ w.result = "Ok"

\* The lines of manifest-sha256.txt as it is on disk.
ManifestOnDisk ==
    IF IsFile(fs, <<ManifestName>>) THEN Lines(fs[<<ManifestName>>].bytes) ELSE <<>>
\* A line of the form `h  p`, its digest h and its path p.
IsManifestLine(line) == Len(line) >= 4 /\ line[2] = " " /\ line[3] = " "
LineDigest(line) == line[1]
LinePath(line) == SubSeq(line, 4, Len(line))
\* The path of a file relative to the bag, its separators written "/".
SlashPath(p) == Join(p, "/")
\* The file a manifest path names: its names are what stands between the
\* separators ("/", and on Windows "\\" as well).
Resolve(pathStr, o) == Split(pathStr, IF o = "windows" THEN {"/", "\\"} ELSE {"/"})
PayloadFiles == {q \in Under(fs, <<DataName>>) : IsFile(fs, q)}
OnlyFilesAndDirs(f) == \A q \in DOMAIN f : f[q].kind \in {"file", "dir"}

\* C1: for every directory whose top level holds an entry named bagit.txt or
\* data, bag_directory returns AlreadyABag, sends no event and leaves the
\* directory as it was.
C1_EntryNamedBagitOrDataIsRejected ==
    \A r \in DOMAIN calls :
       LET w == calls[r]
       IN  (/\ Returned(w)
            /\ IsDir(w.fs0, Root)
            /\ (<<BagitName>> \in DOMAIN w.fs0 \/ <<DataName>> \in DOMAIN w.fs0))
           => (w.result = "AlreadyABag" /\ w.emitted = <<>> /\ fs = w.fs0)

\* C2: after bag_directory returns ok, manifest-sha256.txt has as many lines
\* (str::lines) as there are regular files under data/, every such file has
\* exactly one line carrying its manifest path, and there is no other line;
\* for the empty directory that is zero lines.
C2_ManifestLinesAreThePayloadFiles ==
    \A r \in DOMAIN calls :
       ReturnedOk(calls[r]) =>
         LET lines == ManifestOnDisk
         IN  /\ IsFile(fs, <<ManifestName>>)
             /\ Len(lines) = Cardinality(PayloadFiles)
             /\ \A q \in PayloadFiles :
                  Cardinality({k \in DOMAIN lines :
                                 IsManifestLine(lines[k])
                                 /\ LinePath(lines[k]) = SlashPath(q)}) = 1
             /\ \A k \in DOMAIN lines :
                  /\ IsManifestLine(lines[k])
                  /\ \E q \in PayloadFiles : LinePath(lines[k]) = SlashPath(q)

\* C3: after a successful bag_directory, every line `h  p` of the manifest
\* has p starting with data/, p names an existing regular file of the
\* payload, and h is the SHA-256 of that file's bytes, whatever the names
\* of the files are made of.
C3_ManifestLinesNameAndHashFiles ==
    \A r \in DOMAIN calls :
       ReturnedOk(calls[r]) =>
         \A k \in DOMAIN ManifestOnDisk :
            LET line == ManifestOnDisk[k]
                q == Resolve(LinePath(line), os)
            IN  IsManifestLine(line) =>
                  /\ Len(line) >= 5 /\ line[4] = "data" /\ line[5] = "/"
                  /\ q \in PayloadFiles
                  /\ LineDigest(line) = Sha256(fs[q].bytes)

\* C4: for an input tree of regular files and directories only, after
\* bag_directory returns ok the regular files under data/ are, by relative
\* path and bytes, exactly the regular files that were under the target.
C4_PayloadIsTheInput ==
    \A r \in DOMAIN calls :
       LET w == calls[r]
       IN  (ReturnedOk(w) /\ OnlyFilesAndDirs(w.fs0))
           => FilesBelow(fs, <<DataName>>) = FilesBelow(w.fs0, Root)

\* C5: whenever bag_directory returns ok, the immediate children of the
\* target are exactly data/ and the four tag files, and every original
\* top-level entry is under data/.
C5_TopLevelIsTheBag ==
    \A r \in DOMAIN calls :
       LET w == calls[r]
       IN  ReturnedOk(w) =>
             /\ {FileName(q) : q \in Children(fs, Root)} = {DataName} \cup TagFileNames
             /\ IsDir(fs, <<DataName>>)
             /\ \A q \in Children(w.fs0, Root) :
                  /\ <<DataName>> \o q \in DOMAIN fs
                  /\ fs[<<DataName>> \o q] = w.fs0[q]

\* C6: every filesystem failure during bag_directory makes it return
\* IoError at once; none is skipped.
C6_EveryFailureReturnsIoError ==
    \A r \in DOMAIN calls :
       LET w == calls[r]
       IN  w.failures # <<>> => (Returned(w) /\ w.result = "IoError")

\* The events of one type among a sequence of events, and their number.
OfType(evs, type) == SelectSeq(evs, LAMBDA e : e.type = type)
Count(evs, type) == Len(OfType(evs, type))
Last(evs) == evs[Len(evs)]
\* Started, then Moving, then Checksumming, then Done.
TypeRank(type) ==
    CASE type = "Started" -> 0
      [] type = "Moving" -> 1
      [] type = "Checksumming" -> 2
      [] type = "Done" -> 3
      [] OTHER -> 4

\* C7: a run with a sink sends Started first, then Moving with current
\* 1, 2, .., N (N the top-level children moved), then Checksumming with
\* current 1, 2, .., file_count, with no gap, repeat or decrease and no Moving
\* after a Checksumming; a run that fails sends a prefix of that.
C7_StartedThenMovingThenChecksumming ==
    \A r \in DOMAIN calls :
       LET w == calls[r]
           E == w.emitted
           mov == OfType(E, "Moving")
           chk == OfType(E, "Checksumming")
       IN  /\ ~w.tx => E = <<>>
           /\ w.tx =>
                /\ (w.pc \notin {"validate", "enumerate"}
                    /\ w.result \notin {"NotADirectory", "AlreadyABag"})
                   => E # <<>>
                /\ E # <<>> => E[1] = Started(w.total_files)
                /\ Count(E, "Started") <= 1
                /\ \A j, k \in DOMAIN E : j < k => TypeRank(E[j].type) <= TypeRank(E[k].type)
                /\ \A k \in DOMAIN mov : mov[k].n = k
                /\ \A k \in DOMAIN chk : chk[k].n = k
                /\ chk # <<>> => Len(mov) = Len(w.items_to_move)
                /\ ReturnedOk(w) =>
                     /\ Len(mov) = Len(w.items_to_move)
                     /\ Len(mov) = Cardinality(Children(fs, <<DataName>>))
                     /\ Len(chk) = w.file_count

C7_Witness ==
    \E r \in DOMAIN calls :
       /\ calls[r].tx
       /\ ReturnedOk(calls[r])
       /\ Count(calls[r].emitted, "Moving") = 2
       /\ Count(calls[r].emitted, "Checksumming") = 2

\* C8: the consumer receives the events in the order they were sent, never
\* a Moving or Checksumming before Started; when bag_directory succeeds,
\* Done is sent exactly once, is the last event sent and the last received.
C8_FifoStartedFirstDoneLast ==
    \A r \in DOMAIN chans :
       LET ch == chans[r]
           w == calls[r]
       IN  /\ ch.recvd \o ch.queue = ch.sent
           /\ ch.sent = w.emitted \o (IF w.pc = "exited" THEN Report(w.result) ELSE <<>>)
           /\ \A k \in DOMAIN ch.recvd :
                ch.recvd[k].type \in {"Moving", "Checksumming"}
                => \E j \in 1..(k - 1) : ch.recvd[j].type = "Started"
           /\ ReturnedOk(w) =>
                /\ Count(ch.sent, "Done") = 1
                /\ Last(ch.sent) = Done
           /\ \A k \in DOMAIN ch.recvd :
                ch.recvd[k].type = "Done" => (k = Len(ch.recvd) /\ ch.queue = <<>>)

C8_Witness ==
    \E r \in DOMAIN chans :
       /\ Len(chans[r].recvd) >= 4
       /\ Last(chans[r].recvd) = Done
       /\ Count(chans[r].recvd, "Moving") >= 1
       /\ Count(chans[r].recvd, "Checksumming") >= 1
       /\ app.state.tag = "Done"

\* C9: bag_directory never sends Error, and sends no Done when it fails;
\* the only Error on the channel is the one the worker thread sends after
\* bag_directory returned an error, and it is the last event sent.
C9_ErrorOnlyFromTheWorker ==
    \A r \in DOMAIN chans :
       LET ch == chans[r]
           w == calls[r]
           errs == {k \in DOMAIN ch.sent : ch.sent[k].type = "Error"}
       IN  /\ Count(w.emitted, "Error") = 0
           /\ (Returned(w) /\ w.result # "Ok") => Count(w.emitted, "Done") = 0
           /\ errs # {} => (w.pc = "exited" /\ w.result # "Ok" /\ errs = {Len(ch.sent)})
           /\ (w.pc = "exited" /\ w.result # "Ok") => errs # {}

C9_Witness ==
    \E r \in DOMAIN chans :
       /\ calls[r].pc = "exited"
       /\ calls[r].result = "IoError"
       /\ Len(chans[r].sent) >= 3
       /\ Last(chans[r].sent).type = "Error"

\* C10: with no sink, with a sink whose receiver is alive and with a sink
\* whose receiver was dropped at any point, bag_directory performs the same
\* filesystem operations, reaches the same filesystem and returns the same
\* result: the call and the reference call without a sink, fed the same
\* outcomes of the environment, stay in step.
C10_SinkDoesNotChangeTheTransform ==
    /\ calls[1].pc = refCall.pc
    /\ calls[1].result = refCall.result
    /\ calls[1].ops = refCall.ops
    /\ calls[1].failures = refCall.failures
    /\ fs = refFs

C10_Witness ==
    /\ calls[1].tx
    /\ ~chans[1].rx
    /\ ReturnedOk(calls[1])
    /\ chans[1].sent # <<>>
    /\ Len(chans[1].sent) < Len(calls[1].emitted)
    /\ Len(calls[1].ops) >= 9

\* The tag files in the order bag_directory writes them.
TagOrder == <<BagitName, ManifestName, BagInfoName, TagManifestName>>
\* The entry q of the input is still in the tree, where it was or under data/.
\* (A link is the same entry whether or not its target exists.)
SameEntry(a, b) == a = b \/ {a.kind, b.kind} = {"dangling", "link"}
KeptAtTop(w, q) == q \in DOMAIN fs /\ SameEntry(fs[q], w.fs0[q])
KeptInData(w, q) == <<DataName>> \o q \in DOMAIN fs /\ fs[<<DataName>> \o q] = w.fs0[q]
\* The operation whose failure made the call return.
FailedIn(w, what) ==
    Returned(w) /\ w.result = "IoError" /\ w.failures # <<>> /\ Last(w.failures) = what

\* C11: a failure after validation leaves the tree as the failing phase found
\* it.  A failed rename of the i-th child: children 1..i-1 are under data/,
\* the others at the top level, no tag file was written.  A failure while
\* hashing: every child is under data/ and there is no tag file.  A failed
\* write of a tag file: the tag files before it are there, the later ones are
\* not.  Never is an entry of the input deleted or moved back.
C11_FailureLeavesThePhaseOnDisk ==
    \A r \in DOMAIN calls :
       LET w == calls[r]
           tops == Children(w.fs0, Root)
           firstMoved == {<<w.items_to_move[k]>> : k \in 1..w.i}
           k == CHOOSE j \in 1..4 : Last(w.ops) = <<"write", <<TagOrder[j]>>>>
       IN  /\ FailedIn(w, "rename") =>
                /\ \A q \in firstMoved : <<DataName>> \o q \in DOMAIN fs /\ q \notin DOMAIN fs
                /\ \A q \in tops \ firstMoved : q \in DOMAIN fs
                /\ Children(fs, <<DataName>>) = {<<DataName>> \o q : q \in firstMoved}
                /\ \A t \in TagFileNames : <<t>> \in DOMAIN fs => <<t>> \in tops
           /\ FailedIn(w, "read") =>
                /\ \A q \in tops : <<DataName>> \o q \in DOMAIN fs /\ q \notin DOMAIN fs
                /\ \A t \in TagFileNames : <<t>> \notin DOMAIN fs
           /\ FailedIn(w, "write") =>
                /\ \A j \in 1..(k - 1) : Exists(fs, <<TagOrder[j]>>)
                /\ \A j \in (k + 1)..4 : <<TagOrder[j]>> \notin DOMAIN fs
           /\ (Returned(w) /\ w.result = "IoError") =>
                \A q \in DOMAIN w.fs0 \ {Root} :
                   KeptAtTop(w, q) \/ KeptInData(w, q)

\* The elements of a finite set in one fixed, arbitrary order.
RECURSIVE SetToSeq(_)
SetToSeq(S) ==
    IF S = {} THEN <<>>
    ELSE LET x == CHOOSE y \in S : TRUE IN <<x>> \o SetToSeq(S \ {x})

RECURSIVE SumBytes(_, _)
SumBytes(f, S) ==
    IF S = {} THEN 0
    ELSE LET q == CHOOSE y \in S : TRUE IN ByteLen(f[q].bytes) + SumBytes(f, S \ {q})

\* The regular files of an input tree, and the tag files that follow from
\* the tree, the platform and the date alone: no listing order enters.
InputFiles(f) == {q \in DOMAIN f : q # Root /\ IsFile(f, q)}
ManifestOf(f, o) ==
    ManifestContent(SetToSeq({ManifestLine(Sha256(f[q].bytes), ManifestPath(<<DataName>> \o q, o))
                                : q \in InputFiles(f)}))
BagInfoOf(f, date) ==
    BagInfoContent(date, SumBytes(f, InputFiles(f)), Cardinality(InputFiles(f)))
TagManifestOf(f, o, date) ==
    TagManifestContent(BagInfoOf(f, date), bagit_content, ManifestOf(f, o))
\* The events of a run without their filename fields.
Shape(evs) == [k \in DOMAIN evs |-> <<evs[k].type, evs[k].n>>]
ShapeOf(f) ==
    <<<<"Started", Cardinality(InputFiles(f))>>>>
    \o [k \in 1..Cardinality(Children(f, Root)) |-> <<"Moving", k>>]
    \o [k \in 1..Cardinality(InputFiles(f)) |-> <<"Checksumming", k>>]
    \o <<<<"Done", 0>>>>
\* The date the run put into bag-info.txt.
DateOf(w) == w.bag_info_content[4]

\* C12: for a fixed input tree and date, bagit.txt, manifest-sha256.txt and
\* tagmanifest-sha256.txt come out the same for every order in which the
\* top-level listing and the walk of data/ yield their entries: the bytes
\* written are a function of the tree, the platform and the date, and of the
\* events only the filename fields and their order depend on the listing.
C12_TagFilesDoNotDependOnListingOrder ==
    \A r \in DOMAIN calls :
       LET w == calls[r]
       IN  (ReturnedOk(w) /\ w.failures = <<>>) =>
             /\ fs[<<BagitName>>].bytes = bagit_content
             /\ fs[<<ManifestName>>].bytes = ManifestOf(w.fs0, os)
             /\ fs[<<TagManifestName>>].bytes = TagManifestOf(w.fs0, os, DateOf(w))
             /\ w.tx => Shape(w.emitted) = ShapeOf(w.fs0)

C12_Witness ==
    \E r \in DOMAIN calls :
       /\ ReturnedOk(calls[r]) /\ calls[r].failures = <<>>
       /\ Len(calls[r].manifest_entries) = 2
       /\ calls[r].manifest_entries # SortStrings(calls[r].manifest_entries)
       /\ Len(calls[r].items_to_move) = 2
       /\ ~StrLeq(calls[r].items_to_move[1], calls[r].items_to_move[2])

\* The Payload-Oxum field of bag-info.txt as it is on disk.
OxumOnDisk == fs[<<BagInfoName>>].bytes[7]
Oxum(bytes, files) == ToString(bytes) \o "." \o ToString(files)

\* C13: after a successful bag_directory, Payload-Oxum is B.N with N the
\* number of regular files under data/, which is the number of entries of
\* the manifest, and B the sum of their sizes; directories and links count
\* for nothing, and the empty directory gives 0.0.
C13_PayloadOxumIsThePayload ==
    \A r \in DOMAIN calls :
       ReturnedOk(calls[r]) =>
         /\ IsFile(fs, <<BagInfoName>>)
         /\ fs[<<BagInfoName>>].bytes[6] = "Payload-Oxum: "
         /\ OxumOnDisk = Oxum(SumBytes(fs, PayloadFiles), Cardinality(PayloadFiles))
         /\ Cardinality(PayloadFiles) = Len(SelectSeq(ManifestOnDisk, IsManifestLine))
         /\ PayloadFiles = {} => OxumOnDisk = "0.0"

\* The lines of tagmanifest-sha256.txt as it is on disk, and the line that
\* lists a tag file with the digest of the bytes it has on disk.
TagManifestOnDisk == Lines(fs[<<TagManifestName>>].bytes)
TagLineOf(name) == <<Sha256(fs[<<name>>].bytes), " ", " ">> \o name

\* C14: after a successful bag_directory, tagmanifest-sha256.txt has exactly
\* three entries, for bag-info.txt, bagit.txt and manifest-sha256.txt in that
\* order, each with the SHA-256 of the bytes that tag file has on disk.
C14_TagManifestListsTheThreeTagFiles ==
    \A r \in DOMAIN calls :
       ReturnedOk(calls[r]) =>
         /\ IsFile(fs, <<TagManifestName>>)
         /\ \A t \in {BagInfoName, BagitName, ManifestName} : Exists(fs, <<t>>)
         /\ TagManifestOnDisk =
              <<TagLineOf(BagInfoName), TagLineOf(BagitName), TagLineOf(ManifestName)>>

C14_Witness ==
    \E r \in DOMAIN calls :
       /\ ReturnedOk(calls[r])
       /\ Len(calls[r].manifest_entries) = 2
       /\ Len(TagManifestOnDisk) = 3

\* C15: on a path that does not exist or is a regular file, bag_directory
\* returns NotADirectory (the first check it makes), sends no event and
\* performs no filesystem operation: nothing is created or moved.
C15_NotADirectoryBeforeAnythingElse ==
    \A r \in DOMAIN calls :
       LET w == calls[r]
       IN  (Returned(w) /\ ~IsDir(w.fs0, Root)) =>
             /\ w.result = "NotADirectory"
             /\ w.emitted = <<>>
             /\ w.ops = <<>>
             /\ fs = w.fs0

C15_Witness ==
    \E r \in DOMAIN calls :
       /\ calls[r].tx
       /\ Returned(calls[r])
       /\ calls[r].result = "NotADirectory"
       /\ IsFile(calls[r].fs0, Root)

\* What the tree must look like when the call w sends the event ev.
AllUnderData(w) ==
    \A q \in Children(w.fs0, Root) : <<DataName>> \o q \in DOMAIN fs /\ q \notin DOMAIN fs
ConsistentAtSend(w, ev) ==
    CASE ev.type = "Started" -> ~Exists(fs, <<DataName>>) /\ fs = w.fs0
      [] ev.type = "Moving" ->
           IsDir(fs, <<DataName>>) /\ Cardinality(Children(fs, <<DataName>>)) = ev.n - 1
      [] ev.type = "Checksumming" ->
           ev.n = 1 => (AllUnderData(w) /\ \A t \in TagFileNames : <<t>> \notin DOMAIN fs)
      [] ev.type = "Done" ->
           /\ \A t \in TagFileNames : Exists(fs, <<t>>)
           /\ {FileName(q) : q \in Children(fs, Root)} = {DataName} \cup TagFileNames
           /\ \A q \in Children(w.fs0, Root) : KeptInData(w, q)
      [] OTHER -> TRUE

\* C16: every progress event agrees with the tree at the moment it is sent:
\* at Started nothing has changed and there is no data/; at Moving{i} exactly
\* i-1 children are under data/; at the first Checksumming every child is
\* under data/ and there is no tag file; at Done the four tag files are
\* there and the directory is a bag.
C16_EventsAgreeWithTheTree ==
    [][\A r \in DOMAIN calls :
          (r \in DOMAIN calls' /\ Len(calls'[r].emitted) > Len(calls[r].emitted))
          => ConsistentAtSend(calls[r], Last(calls'[r].emitted))]_vars

\* The call is between its first look at the directory and its last write.
FsWork(w) == w.pc \notin {"send_done", "returned", "exited"}

\* C17: whatever the user does, at most one worker is working on the
\* filesystem at a time: while the state is Idle, Done or Error no worker is,
\* and start_bagging runs only in those states.
C17_AtMostOneWorkerOnTheFilesystem ==
    /\ [](/\ Cardinality({r \in DOMAIN calls : FsWork(calls[r])}) <= 1
          /\ app.state.tag \in {"Idle", "Done", "Error"}
             => \A r \in DOMAIN calls : ~FsWork(calls[r]))
    /\ [][Len(calls') > Len(calls) => app.state.tag \in {"Idle", "Done", "Error"}]_vars

C17_Witness ==
    /\ Len(calls) = 2
    /\ ~FsWork(calls[1])
    /\ calls[2].pc = "move"
    /\ app.state.tag = "Processing"

\* The results of bag_directory that are errors.
Errors == {"NotADirectory", "AlreadyABag", "IoError"}

\* C18: after start_bagging, with the worker running and update ticking, the
\* observer leaves Processing for one terminal state and clears the receiver
\* of the run: Done exactly when bag_directory returned ok, Error exactly
\* when it returned an error, and never Processing for ever.
C18_ProcessingEndsInDoneOrError ==
    /\ (app.state.tag = "Processing") ~> (app.state.tag \in {"Done", "Error"})
    /\ \A r \in 1..MaxRuns : (app.progress_rx = r) ~> (app.progress_rx # r)
    /\ \A r \in 1..MaxRuns :
          /\ (Len(calls) >= r /\ app.progress_rx = r /\ calls[r].result = "Ok")
                ~> (app.state.tag = "Done")
          /\ (Len(calls) >= r /\ app.progress_rx = r /\ calls[r].result \in Errors)
                ~> (app.state.tag = "Error")
    /\ [](/\ app.state.tag = "Done" => calls[Len(calls)].result = "Ok"
          /\ app.state.tag = "Error" => calls[Len(calls)].result \in Errors)

C18_Witness ==
    /\ app.state.tag = "Done"
    /\ app.state.file_count = 1
    /\ app.progress_rx = 0
    /\ Len(calls) = 1
    /\ calls[1].pc = "exited"

\* C19: in the Done state the observer shows the total_files of the run's
\* Started event, which is the number of entries of the manifest and the N
\* of Payload-Oxum; in the Processing state current never exceeds
\* total_files.
C19_DoneShowsTheFileCount ==
    /\ app.state.tag = "Done" =>
         LET w == calls[Len(calls)]
         IN  /\ app.state.file_count = w.emitted[1].n
             /\ app.state.file_count = Len(SelectSeq(ManifestOnDisk, IsManifestLine))
             /\ app.state.file_count = w.file_count
             /\ OxumOnDisk = Oxum(w.total_bytes, app.state.file_count)
    /\ app.state.tag = "Processing" => app.state.current <= app.state.total_files

\* The call created data/ and failed later: listing, moving, hashing or
\* writing a tag file.
FailedAfterData(w) ==
    \E what \in {"read_dir", "rename", "read", "write"} : FailedIn(w, what)

\* C20: once a run has failed after creating data/, every later call on the
\* directory returns AlreadyABag without an event or a filesystem operation
\* and leaves the tree as it found it; nothing is resumed, and data/ is
\* never nested in data/.
C20_FailedRunIsNotResumed ==
    /\ \A r \in DOMAIN calls : \A r1 \in 1..(r - 1) :
          (FailedAfterData(calls[r1]) /\ Returned(calls[r])) =>
             /\ calls[r].result = "AlreadyABag"
             /\ calls[r].emitted = <<>>
             /\ calls[r].ops = <<>>
             /\ r = Len(calls) => fs = calls[r].fs0
    /\ <<DataName, DataName>> \notin DOMAIN fs

C20_Witness ==
    /\ Len(calls) = 2
    /\ FailedIn(calls[1], "rename")
    /\ Returned(calls[2])
    /\ calls[2].result = "AlreadyABag"
    /\ Children(fs, Root) # {<<DataName>>}

====
